---- MODULE Spec2Model ----
(***************************************************************************)
(* A model of the VARA modem client (package vara): the Modem session, its *)
(* command-channel reader goroutine (cmdListen), the buffered channel      *)
(* connectChange, the blocking operations DialURL / Listen / Accept /      *)
(* Close, and the facade varaDataConn, which holds a COPY of the Modem.    *)
(*                                                                         *)
(* One caller thread issues the API calls one after the other; every       *)
(* start() spawns one more reader goroutine; the modem program is the      *)
(* environment: it sends lines on the command socket and may go away.      *)
(***************************************************************************)
EXTENDS Integers, Sequences, FiniteSets, TLC

\* ---------------------------------------------------------------- bounds
\* start() calls the caller may make (each one spawns a reader goroutine)
MaxReaders == 2
\* lines the modem sends in total
MaxLines == 2
\* lines that may wait unread on a command socket
MaxInbox == 2
\* the count of PTT controller calls is kept modulo PttWrap
PttWrap == 3
\* lines one Read of the command socket returns at most
MaxBatch == 2

\* ------------------------------------------------------ program constants
\* time.After(time.Second * 10) in Close
CloseTimeout == 10
\* make(chan connectedState, 1)
ChanCap == 1
connected == "connected"
disconnected == "disconnected"

bandwidths == {"500", "2300", "2750"}

Schemes == {"varahf", "varafm"}
MyCall == "ME"
Targets == {"R1", "R2"}
\* the bw values a dial is tried with: absent, supported, unsupported
BwInputs == {"", "500", "2300", "2750", "1000", "2300 "}
\* PTT controllers the caller may install; 0 is nil
Hooks == {1, 2}
NoRig == 0
\* a nil *net.TCPConn
Nil == 0

\* The lines the modem sends, as their space-separated words.
ModemLines ==
  { << "PTT", "ON" >>, << "PTT", "OFF" >>, << "BUSY", "ON" >>,
    << "BUSY", "OFF" >>, << "OK" >>, << "IAMALIVE" >>, << "PENDING" >>,
    << "DISCONNECTED" >>, << "CONNECTED", "R1" >>, << "CONNECTED", "R2" >>,
    << "BUFFER", "0" >>, << "REGISTERED", "R1" >>, << "FOO", "BAR" >> }

Readers == 1..MaxReaders
Socks == 1..(2 * MaxReaders)

VARIABLES
  m,             \* the Modem struct of the session
  conn,          \* the driver's conn: the facade last returned (a Modem copy inside)
  listener,      \* the caller holds the net.Listener returned by Listen
  connectChange, \* the buffer of the channel m.connectChange (shared by copies)
  sendq,         \* goroutines parked in a send on the full channel, in order
  nsock,         \* sockets dialled so far
  cmdSocks,      \* the sockets that are command sockets
  closed,        \* sockets closed on our side
  peerGone,      \* the modem program has gone away
  inbox,         \* per command socket, the lines sent and not yet read
  sent,          \* lines the modem has sent
  rpc,           \* per reader goroutine, its position in cmdListen
  rsock,         \* per reader, the socket its Read is on
  cmds,          \* per reader, the lines of its last Read not yet dispatched
  nreaders,      \* reader goroutines spawned
  cpc,           \* the caller's position
  op,            \* the call in progress (or the last one)
  written,       \* the commands written by the call in progress (or the last)
  got,           \* the value the caller took from connectChange
  timer,         \* time waited in Close's select
  ret,           \* what the last call returned
  ptt,           \* the PTT controllers: calls made (modulo PttWrap), the last call
  crashed        \* a nil dereference has ended the program

vars ==
  << m, conn, listener, connectChange, sendq, nsock, cmdSocks, closed, peerGone,
     inbox, sent, rpc, rsock, cmds, nreaders, cpc, op, written, got,
     timer, ret, ptt, crashed >>

sockVars == << nsock, cmdSocks, closed, peerGone, inbox, sent >>
readerVars == << rpc, rsock, cmds, nreaders >>
chanVars == << connectChange, sendq >>

\* ------------------------------------------------------------- the structs
\* NewModem
NewModem(scheme) ==
  [ scheme |-> scheme, myCall |-> MyCall, cmdConn |-> Nil, dataConn |-> Nil,
    toCall |-> "", busy |-> FALSE, lastState |-> disconnected, rig |-> NoRig ]

\* the driver's conn before any connect
NoConn(scheme) == [ ok |-> FALSE, tcp |-> Nil, modem |-> NewModem(scheme) ]

\* &varaDataConn{*m.dataConn, *m}: the facade holds a copy of the Modem
varaDataConn(mm) == [ ok |-> TRUE, tcp |-> mm.dataConn, modem |-> mm ]

\* Addr.String of varaDataConn.RemoteAddr
RemoteAddr(v) == v.modem.toCall

\* Busy
Busy == m.busy

\* the call in progress: its name, its receiver, its arguments, and what it
\* found when it began (the session in its initial shape; for Accept, the
\* notification channel's buffer)
NoOp ==
  [ name |-> "none", recv |-> "m", target |-> "", bw |-> "", p2p |-> FALSE,
    clean |-> FALSE, slot |-> << >> ]

InitWith(schemes) ==
  /\ \E s \in schemes : m = NewModem(s) /\ conn = NoConn(s)
  /\ listener = FALSE
  /\ connectChange = << >>
  /\ sendq = << >>
  /\ nsock = 0
  /\ cmdSocks = {}
  /\ closed = {}
  /\ peerGone = FALSE
  /\ inbox = [ s \in Socks |-> << >> ]
  /\ sent = 0
  /\ rpc = [ r \in Readers |-> "none" ]
  /\ rsock = [ r \in Readers |-> Nil ]
  /\ cmds = [ r \in Readers |-> << >> ]
  /\ nreaders = 0
  /\ cpc = "idle"
  /\ op = NoOp
  /\ written = << >>
  /\ got = disconnected
  /\ timer = 0
  /\ ret = "none"
  /\ ptt = [ n |-> 0, hook |-> NoRig, on |-> FALSE ]
  /\ crashed = FALSE

\* ------------------------------------------------------------- the sockets
\* net.DialTCP succeeded: the next socket
NewSock == nsock + 1

\* (*net.TCPConn).Write: fails on a nil or closed connection; once the modem
\* has gone away a write may still be accepted by the kernel or fail
WriteResults(h) ==
  IF h = Nil \/ h \in closed THEN {FALSE}
  ELSE IF peerGone THEN {TRUE, FALSE} ELSE {TRUE}

\* disconnectTCP: closes the connection unless it is nil
disconnectTCP(h) == IF h = Nil THEN closed ELSE closed \cup {h}

\* --------------------------------------------------------- the channel
\* where a goroutine parked in a send resumes
AfterSend(pc) ==
  CASE pc = "hc_blocked" -> "dispatch"
    [] pc = "hd_blocked" -> "hd_data"
    [] OTHER -> pc

\* the channel has room for a send
CanSend == Len(connectChange) < ChanCap

\* <-m.connectChange by the caller on a non-empty buffer: takes the head; the
\* first parked sender's value moves into the buffer and the sender resumes
Recv ==
  /\ connectChange # << >>
  /\ got' = Head(connectChange)
  /\ IF sendq # << >>
     THEN /\ connectChange' = Append(Tail(connectChange), Head(sendq).val)
          /\ sendq' = Tail(sendq)
          /\ rpc' = [ rpc EXCEPT ![Head(sendq).proc] = AfterSend(@) ]
     ELSE /\ connectChange' = Tail(connectChange)
          /\ UNCHANGED << sendq, rpc >>

\* ------------------------------------------------------------ the caller
\* the caller's call returns r: its locals are gone
Return(r) ==
  /\ cpc' = "idle"
  /\ ret' = r
  /\ op' = NoOp
  /\ written' = << >>
  /\ got' = disconnected
  /\ timer' = 0

\* the caller's call goes on at pc
Goto(pc) == cpc' = pc /\ UNCHANGED << ret, op, written, got, timer >>

\* the caller begins the call o
Call(o, pc) ==
  /\ cpc = "idle"
  /\ cpc' = pc
  /\ op' = o
  /\ ret' = "none"
  /\ UNCHANGED << written, got, timer >>

\* the Modem a Close runs on: the session, or the copy inside the facade
Cur == IF op.recv = "m" THEN m ELSE conn.modem

SetCur(new) ==
  IF op.recv = "m"
  THEN m' = new /\ UNCHANGED conn
  ELSE conn' = [ conn EXCEPT !.modem = new ] /\ UNCHANGED m

\* writeCmd by the caller, on the cmdConn of the Modem the call runs on: the
\* call goes on at pc, or returns the write's error
writeCmd(cmd, pc) ==
  \E ok \in WriteResults(Cur.cmdConn) :
    IF ok
    THEN /\ written' = Append(written, cmd)
         /\ cpc' = pc
         /\ UNCHANGED << ret, op, got, timer >>
    ELSE Return("err_write")

\* the session is in the shape NewModem left it in
InitialShape(mm) ==
  /\ mm.lastState = disconnected
  /\ mm.cmdConn = Nil
  /\ mm.dataConn = Nil
  /\ mm.toCall = ""
  /\ mm.busy = FALSE

\* the commands start() writes, in order
StartCmds(scheme) ==
  << "PUBLIC ON" >> \o (IF scheme = "varahf" THEN << "CWID ON" >> ELSE << >>)
    \o << "COMPRESSION TEXT", "MYCALL " \o MyCall >>

\* DialURL, up to the call of start: a URL of another scheme is refused
DialURL(sch, target, bw, p2p) ==
  /\ cpc = "idle"
  /\ IF sch # m.scheme
     THEN Return("ErrUnsupportedScheme")
     ELSE Call([ name |-> "dial", recv |-> "m", target |-> target, bw |-> bw,
                 p2p |-> p2p, clean |-> InitialShape(m), slot |-> << >> ],
               "start_cmd")
  /\ UNCHANGED << m, conn, listener, chanVars, sockVars, readerVars, ptt,
                  crashed >>

\* Listen, up to the call of start
Listen ==
  /\ Call([ name |-> "listen", recv |-> "m", target |-> "", bw |-> "",
            p2p |-> FALSE, clean |-> InitialShape(m), slot |-> << >> ],
          "start_cmd")
  /\ UNCHANGED << m, conn, listener, chanVars, sockVars, readerVars, ptt,
                  crashed >>

\* start: open the command port if it isn't, then go m.cmdListen()
start_cmdConn(ok) ==
  /\ cpc = "start_cmd"
  /\   IF m.cmdConn = Nil /\ ~ok
       THEN \* connectTCP failed: start returns before the reader is spawned
            /\ Return("err_connect")
            /\ UNCHANGED << m, sockVars, readerVars >>
       ELSE /\ IF m.cmdConn = Nil
               THEN /\ m' = [ m EXCEPT !.cmdConn = NewSock ]
                    /\ nsock' = NewSock
                    /\ cmdSocks' = cmdSocks \cup {NewSock}
               ELSE ok /\ UNCHANGED << m, nsock, cmdSocks >>
            /\ nreaders' = nreaders + 1
            /\ rpc' = [ rpc EXCEPT ![nreaders + 1] = "loop" ]
            /\ Goto("start_data")
            /\ UNCHANGED << closed, peerGone, inbox, sent, rsock, cmds >>
  /\ UNCHANGED << conn, listener, chanVars, ptt, crashed >>

\* start: open the data port if it isn't, then m.busy = false
start_dataConn(ok) ==
  /\ cpc = "start_data"
  /\   IF m.dataConn = Nil /\ ~ok
       THEN /\ Return("err_connect")
            /\ UNCHANGED << m, nsock >>
       ELSE /\ IF m.dataConn = Nil
               THEN /\ m' = [ m EXCEPT !.dataConn = NewSock, !.busy = FALSE ]
                    /\ nsock' = NewSock
               ELSE /\ ok
                    /\ m' = [ m EXCEPT !.busy = FALSE ]
                    /\ UNCHANGED nsock
            /\ Goto("start_write")
  /\ UNCHANGED << conn, listener, chanVars, cmdSocks, closed, peerGone, inbox,
                  sent, readerVars, ptt, crashed >>

\* where DialURL goes on after setBandwidth
AfterBandwidth == IF m.scheme = "varahf" THEN "dial_session" ELSE "dial_connect"

\* start: the writeCmd calls of PUBLIC ON, CWID ON, COMPRESSION TEXT, MYCALL,
\* taken as one step (nothing else the caller does lies between them); a
\* failed write ends the call
start_writeCmd ==
  /\ cpc = "start_write"
  /\ \E ok \in WriteResults(m.cmdConn) :
       IF ok
       THEN /\ written' = written \o StartCmds(m.scheme)
            /\ cpc' = IF op.name = "dial" THEN "dial_bw" ELSE "listen_on"
            /\ UNCHANGED << ret, op, got, timer >>
       ELSE Return("err_write")
  /\ UNCHANGED << m, conn, listener, chanVars, sockVars, readerVars, ptt,
                  crashed >>

\* Listen after start: LISTEN ON, then the Modem is returned as the listener
Listen_on ==
  /\ cpc = "listen_on"
  /\ \E ok \in WriteResults(m.cmdConn) :
       IF ok
       THEN listener' = TRUE /\ Return("listener")
       ELSE Return("err_write") /\ UNCHANGED listener
  /\ UNCHANGED << m, conn, chanVars, sockVars, readerVars, ptt, crashed >>

\* contains(bandwidths, bw)
contains(c, s) == s \in c

\* setBandwidth, called by DialURL after start has returned
setBandwidth ==
  /\ cpc = "dial_bw"
  /\ IF op.bw = ""
     THEN Goto(AfterBandwidth)
     ELSE IF ~contains(bandwidths, op.bw)
     THEN Return("err_bandwidth")
     ELSE writeCmd("BW" \o op.bw, AfterBandwidth)
  /\ UNCHANGED << m, conn, listener, chanVars, sockVars, readerVars, ptt,
                  crashed >>

\* DialURL_session with the bug of ignoring the p2p parameter
DialURL_session_ignoresP2P ==
  /\ cpc = "dial_session"
  /\ writeCmd("WINLINK SESSION", "dial_connect")
  /\ UNCHANGED << m, conn, listener, chanVars, sockVars, readerVars, ptt,
                  crashed >>

\* DialURL, varahf only: P2P SESSION or WINLINK SESSION
DialURL_session ==
  /\ cpc = "dial_session"
  /\ writeCmd(IF op.p2p THEN "P2P SESSION" ELSE "WINLINK SESSION",
              "dial_connect")
  /\ UNCHANGED << m, conn, listener, chanVars, sockVars, readerVars, ptt,
                  crashed >>

\* DialURL_connect with the bug of dropping the data port handle until the
\* link is connected
DialURL_connect_dropsDataConn ==
  /\ cpc = "dial_connect"
  /\ m' = [ m EXCEPT !.toCall = op.target, !.dataConn = Nil ]
  /\ writeCmd("CONNECT " \o m.myCall \o " " \o op.target, "dial_wait")
  /\ UNCHANGED << conn, listener, chanVars, sockVars, readerVars, ptt,
                  crashed >>

\* DialURL_connect with the bug of taking the link as connected once CONNECT
\* is written
DialURL_connect_setsConnected ==
  /\ cpc = "dial_connect"
  /\ m' = [ m EXCEPT !.toCall = op.target, !.lastState = connected ]
  /\ writeCmd("CONNECT " \o m.myCall \o " " \o op.target, "dial_wait")
  /\ UNCHANGED << conn, listener, chanVars, sockVars, readerVars, ptt,
                  crashed >>

\* DialURL: m.toCall = url.Target, then CONNECT
DialURL_connect ==
  /\ cpc = "dial_connect"
  /\ m' = [ m EXCEPT !.toCall = op.target ]
  /\ writeCmd("CONNECT " \o m.myCall \o " " \o op.target, "dial_wait")
  /\ UNCHANGED << conn, listener, chanVars, sockVars, readerVars, ptt,
                  crashed >>

\* Accept: the caller holds the listener Listen returned
Accept ==
  /\ listener
  /\ Call([ name |-> "accept", recv |-> "m", target |-> "", bw |-> "",
            p2p |-> FALSE, clean |-> InitialShape(m), slot |-> connectChange ],
          "accept_wait")
  /\ UNCHANGED << m, conn, listener, chanVars, sockVars, readerVars, ptt,
                  crashed >>

\* DialURL and Accept: block until a value is in the channel, and take it
WaitConnected ==
  /\ cpc \in {"dial_wait", "accept_wait"}
  /\ Recv
  /\ cpc' = IF cpc = "dial_wait" THEN "dial_ret" ELSE "accept_ret"
  /\ UNCHANGED << m, conn, listener, sockVars, rsock, cmds, nreaders, op,
                  written, timer, ret, ptt, crashed >>

\* a nil pointer dereference: the runtime panics and the process exits; its
\* goroutines are gone and its sockets are closed
Panic ==
  /\ crashed' = TRUE
  /\ cpc' = "crashed"
  /\ ret' = "panic"
  /\ op' = NoOp
  /\ written' = << >>
  /\ got' = disconnected
  /\ timer' = 0
  /\ closed' = 1..nsock
  /\ rpc' = [ r \in Readers |-> IF rpc[r] = "none" THEN "none" ELSE "done" ]
  /\ rsock' = [ r \in Readers |-> Nil ]
  /\ cmds' = [ r \in Readers |-> << >> ]

\* DialURL and Accept after the wait: anything but connected clears m.dataConn
\* and fails; connected hands out the facade, dereferencing m.dataConn
HandOver ==
  /\ cpc \in {"dial_ret", "accept_ret"}
  /\ IF got # connected
     THEN /\ m' = [ m EXCEPT !.dataConn = Nil ]
          /\ Return("err_connection_failed")
          /\ UNCHANGED << conn, crashed, closed, rpc, rsock, cmds >>
     ELSE IF m.dataConn = Nil
     THEN /\ Panic
          /\ UNCHANGED << m, conn >>
     ELSE /\ conn' = varaDataConn(m)
          /\ Return("facade")
          /\ UNCHANGED << m, crashed, closed, rpc, rsock, cmds >>
  /\ UNCHANGED << listener, chanVars, nsock, cmdSocks, peerGone, inbox, sent,
                  nreaders, ptt >>

\* sendPTT: calls the PTT controller of the Modem it runs on, unless it is nil
sendPTT(mm, on) ==
  ptt' = IF mm.rig # NoRig
         THEN [ n |-> (ptt.n + 1) % PttWrap, hook |-> mm.rig, on |-> on ]
         ELSE ptt

\* SetPTT
SetPTT(h) ==
  /\ cpc = "idle"
  /\ m.rig # h
  /\ m' = [ m EXCEPT !.rig = h ]
  /\ Return("set")
  /\ UNCHANGED << conn, listener, chanVars, sockVars, readerVars, ptt, crashed >>

\* Close, called on the session (which = "m") or, as varaDataConn.Close, on
\* the Modem copy inside the facade (which = "conn"); the test of lastState
Close(which) ==
  /\ which = "conn" => conn.ok
  /\ LET mm == IF which = "m" THEN m ELSE conn.modem
     IN  Call([ name |-> "close", recv |-> which, target |-> "", bw |-> "",
                p2p |-> FALSE, clean |-> mm.lastState = disconnected,
                slot |-> << >> ],
              IF mm.lastState = connected THEN "close_disc" ELSE "close_ptt")
  /\ UNCHANGED << m, conn, listener, chanVars, sockVars, readerVars, ptt,
                  crashed >>

\* Close: DISCONNECT unless cmdConn is nil; a failed write ends the call
Close_disconnect ==
  /\ cpc = "close_disc"
  /\ IF Cur.cmdConn = Nil
     THEN Goto("close_wait")
     ELSE writeCmd("DISCONNECT", "close_wait")
  /\ UNCHANGED << m, conn, listener, chanVars, sockVars, readerVars, ptt,
                  crashed >>

\* Close, select: a value arrives in the channel
Close_recv ==
  /\ cpc = "close_wait"
  /\ Recv
  /\ cpc' = IF Head(connectChange) # disconnected THEN "close_abort"
            ELSE "close_ptt"
  /\ UNCHANGED << m, conn, listener, sockVars, rsock, cmds, nreaders, op,
                  written, timer, ret, ptt, crashed >>

\* a reader goroutine has a step to take
ReaderRunnable(r) ==
  \/ rpc[r] \in {"loop", "dispatch", "hc_pub", "hd_pub", "hd_data", "hd_cmd",
                 "hd_rest"}
  \/ rpc[r] = "read" /\ (rsock[r] \in closed \/ inbox[rsock[r]] # << >> \/ peerGone)

\* time passes while Close is parked in its select and every reader
\* goroutine is parked too (a runnable goroutine runs well within a second)
Tick ==
  /\ cpc = "close_wait"
  /\ connectChange = << >>
  /\ \A r \in Readers : ~ReaderRunnable(r)
  /\ timer < CloseTimeout
  /\ timer' = timer + 1
  /\ UNCHANGED << m, conn, listener, chanVars, sockVars, readerVars, cpc, op,
                  written, got, ret, ptt, crashed >>

\* Close, select: time.After fires
Close_timeout ==
  /\ cpc = "close_wait"
  /\ connectChange = << >>
  /\ timer = CloseTimeout
  /\ Goto("close_abort")
  /\ UNCHANGED << m, conn, listener, chanVars, sockVars, readerVars, ptt,
                  crashed >>

\* Close: ABORT; a failed write ends the call
Close_abort ==
  /\ cpc = "close_abort"
  /\ writeCmd("ABORT", "close_ptt")
  /\ UNCHANGED << m, conn, listener, chanVars, sockVars, readerVars, ptt,
                  crashed >>

\* Close: m.sendPTT(false), then handleDisconnect begins: lastState
Close_sendPTT ==
  /\ cpc = "close_ptt"
  /\ sendPTT(Cur, FALSE)
  /\ SetCur([ Cur EXCEPT !.lastState = disconnected ])
  /\ Goto("hd_pub")
  /\ UNCHANGED << listener, chanVars, sockVars, readerVars, crashed >>

\* handleDisconnect in Close: m.connectChange <- disconnected; on a full
\* channel the caller parks, and nothing but a receive resumes it
Close_publish ==
  /\ cpc = "hd_pub"
  /\ IF CanSend
     THEN /\ connectChange' = Append(connectChange, disconnected)
          /\ Goto("hd_data")
          /\ UNCHANGED sendq
     ELSE /\ sendq' = Append(sendq, [ proc |-> 0, val |-> disconnected ])
          /\ Goto("hd_blocked")
          /\ UNCHANGED connectChange
  /\ UNCHANGED << m, conn, listener, sockVars, readerVars, ptt, crashed >>

\* handleDisconnect in Close: m.dataConn = disconnectTCP("data", m.dataConn)
Close_dataConn ==
  /\ cpc = "hd_data"
  /\ closed' = disconnectTCP(Cur.dataConn)
  /\ SetCur([ Cur EXCEPT !.dataConn = Nil ])
  /\ Goto("hd_cmd")
  /\ UNCHANGED << listener, chanVars, nsock, cmdSocks, peerGone, inbox, sent,
                  readerVars, ptt, crashed >>

\* handleDisconnect in Close: m.cmdConn = disconnectTCP("command", m.cmdConn)
Close_cmdConn ==
  /\ cpc = "hd_cmd"
  /\ closed' = disconnectTCP(Cur.cmdConn)
  /\ SetCur([ Cur EXCEPT !.cmdConn = Nil ])
  /\ Goto("hd_rest")
  /\ UNCHANGED << listener, chanVars, nsock, cmdSocks, peerGone, inbox, sent,
                  readerVars, ptt, crashed >>

\* handleDisconnect in Close: toCall and busy; Close returns nil
Close_return ==
  /\ cpc = "hd_rest"
  /\ SetCur([ Cur EXCEPT !.toCall = "", !.busy = FALSE ])
  /\ Return("closed")
  /\ UNCHANGED << listener, chanVars, sockVars, readerVars, ptt, crashed >>

\* -------------------------------------------------------- the Event Reader
\* strings.HasPrefix(c, p), on the words of a line
HasPrefix(c, p) == Len(c) >= 1 /\ c[1] = p

\* handleCmd's switch: what a line is handled as
Kind(c) ==
  CASE c = << "PTT", "ON" >> -> "ptt_on"
    [] c = << "PTT", "OFF" >> -> "ptt_off"
    [] c = << "BUSY", "ON" >> -> "busy_on"
    [] c = << "BUSY", "OFF" >> -> "busy_off"
    [] c = << "OK" >> -> "nothing"
    [] c = << "IAMALIVE" >> -> "nothing"
    [] c = << "PENDING" >> -> "nothing"
    [] c = << "DISCONNECTED" >> -> "disconnect"
    [] OTHER ->
         IF HasPrefix(c, "CONNECTED") THEN "connect"
         ELSE IF HasPrefix(c, "BUFFER") THEN "nothing"
         ELSE IF HasPrefix(c, "REGISTERED") THEN "nothing"
         ELSE "unexpected"

\* strings.Split(string(buf[:l]), "\r") of a read of whole lines, each ended
\* by "\r": the lines and one empty fragment
Split(lines) == lines \o << << >> >>

\* the fragments cmdListen hands to handleCmd: the empty ones are skipped
NonEmpty(frags) == SelectSeq(frags, LAMBDA c : c # << >>)

Min(a, b) == IF a < b THEN a ELSE b

\* the reader goroutine r ends: its locals are gone
ReaderDone(r) ==
  /\ rpc' = [ rpc EXCEPT ![r] = "done" ]
  /\ rsock' = [ rsock EXCEPT ![r] = Nil ]
  /\ cmds' = [ cmds EXCEPT ![r] = << >> ]

\* cmdListen: the test of m.cmdConn at the top of the loop; the Read that
\* follows is on the connection found there
cmdListen_loop(r) ==
  /\ rpc[r] = "loop"
  /\ IF m.cmdConn = Nil
     THEN ReaderDone(r)
     ELSE /\ rpc' = [ rpc EXCEPT ![r] = "read" ]
          /\ rsock' = [ rsock EXCEPT ![r] = m.cmdConn ]
          /\ UNCHANGED cmds
  /\ UNCHANGED << m, conn, listener, chanVars, sockVars, nreaders, cpc, op,
                  written, got, timer, ret, ptt, crashed >>

\* cmdListen: m.cmdConn.Read returns: net.ErrClosed on a connection closed on
\* our side, some of the pending lines, or io.EOF once the modem is gone
cmdListen_read(r) ==
  /\ rpc[r] = "read"
  /\ IF rsock[r] \in closed
     THEN ReaderDone(r) /\ UNCHANGED inbox
     ELSE IF inbox[rsock[r]] # << >>
     THEN \E k \in 1..Min(MaxBatch, Len(inbox[rsock[r]])) :
            /\ cmds' = [ cmds EXCEPT ![r] =
                           NonEmpty(Split(SubSeq(inbox[rsock[r]], 1, k))) ]
            /\ inbox' = [ inbox EXCEPT ![rsock[r]] =
                            SubSeq(@, k + 1, Len(@)) ]
            /\ rpc' = [ rpc EXCEPT ![r] = "dispatch" ]
            /\ UNCHANGED rsock
     ELSE /\ peerGone
          /\ ReaderDone(r)
          /\ UNCHANGED inbox
  /\ UNCHANGED << m, conn, listener, chanVars, nsock, cmdSocks, closed,
                  peerGone, sent, nreaders, cpc, op, written, got, timer,
                  ret, ptt, crashed >>

\* cmdListen: Read fails with another error: logged, and the loop goes on
cmdListen_readErr(r) ==
  /\ rpc[r] = "read"
  /\ rsock[r] \notin closed
  /\ rpc' = [ rpc EXCEPT ![r] = "loop" ]
  /\ UNCHANGED << m, conn, listener, chanVars, sockVars, rsock, cmds, nreaders,
                  cpc, op, written, got, timer, ret, ptt, crashed >>

\* handleCmd on the next line of the read (the loop over cmds); "connect" and
\* "disconnect" set lastState here and go on to the send
handleCmd(r) ==
  /\ rpc[r] = "dispatch"
  /\ IF cmds[r] = << >>
     THEN /\ rpc' = [ rpc EXCEPT ![r] = "loop" ]
          /\ UNCHANGED << m, cmds, ptt >>
     ELSE LET c == Head(cmds[r])
              k == Kind(c)
          IN  /\ cmds' = [ cmds EXCEPT ![r] = Tail(@) ]
              /\ IF k = "ptt_on" THEN sendPTT(m, TRUE)
                 ELSE IF k = "ptt_off" THEN sendPTT(m, FALSE)
                 ELSE UNCHANGED ptt
              /\ m' = CASE k = "busy_on" -> [ m EXCEPT !.busy = TRUE ]
                        [] k = "busy_off" -> [ m EXCEPT !.busy = FALSE ]
                        [] k = "connect" -> [ m EXCEPT !.lastState = connected ]
                        [] k = "disconnect" ->
                             [ m EXCEPT !.lastState = disconnected ]
                        [] OTHER -> m
              /\ rpc' = [ rpc EXCEPT ![r] =
                            CASE k = "connect" -> "hc_pub"
                              [] k = "disconnect" -> "hd_pub"
                              [] OTHER -> "dispatch" ]
  /\ UNCHANGED << conn, listener, chanVars, sockVars, rsock, nreaders, cpc, op,
                  written, got, timer, ret, crashed >>

\* the value a reader sends from where it is
SendVal(pc) == IF pc = "hc_pub" THEN connected ELSE disconnected

\* handleConnect / handleDisconnect in the reader: m.connectChange <- v; on
\* a full channel the reader parks until a receive takes its value
Reader_publish(r) ==
  /\ rpc[r] \in {"hc_pub", "hd_pub"}
  /\ IF CanSend
     THEN /\ connectChange' = Append(connectChange, SendVal(rpc[r]))
          /\ rpc' = [ rpc EXCEPT ![r] =
                        IF @ = "hc_pub" THEN "dispatch" ELSE "hd_data" ]
          /\ UNCHANGED sendq
     ELSE /\ sendq' = Append(sendq, [ proc |-> r, val |-> SendVal(rpc[r]) ])
          /\ rpc' = [ rpc EXCEPT ![r] =
                        IF @ = "hc_pub" THEN "hc_blocked" ELSE "hd_blocked" ]
          /\ UNCHANGED connectChange
  /\ UNCHANGED << m, conn, listener, sockVars, rsock, cmds, nreaders, cpc, op,
                  written, got, timer, ret, ptt, crashed >>

\* handleDisconnect in the reader: the data port
Reader_dataConn(r) ==
  /\ rpc[r] = "hd_data"
  /\ closed' = disconnectTCP(m.dataConn)
  /\ m' = [ m EXCEPT !.dataConn = Nil ]
  /\ rpc' = [ rpc EXCEPT ![r] = "hd_cmd" ]
  /\ UNCHANGED << conn, listener, chanVars, nsock, cmdSocks, peerGone, inbox,
                  sent, rsock, cmds, nreaders, cpc, op, written, got,
                  timer, ret, ptt, crashed >>

\* handleDisconnect in the reader: the command port
Reader_cmdConn(r) ==
  /\ rpc[r] = "hd_cmd"
  /\ closed' = disconnectTCP(m.cmdConn)
  /\ m' = [ m EXCEPT !.cmdConn = Nil ]
  /\ rpc' = [ rpc EXCEPT ![r] = "hd_rest" ]
  /\ UNCHANGED << conn, listener, chanVars, nsock, cmdSocks, peerGone, inbox,
                  sent, rsock, cmds, nreaders, cpc, op, written, got,
                  timer, ret, ptt, crashed >>

\* Reader_return with the bug of leaving the busy flag as it is
Reader_return_keepsBusy(r) ==
  /\ rpc[r] = "hd_rest"
  /\ m' = [ m EXCEPT !.toCall = "" ]
  /\ ReaderDone(r)
  /\ UNCHANGED << conn, listener, chanVars, sockVars, nreaders, cpc, op,
                  written, got, timer, ret, ptt, crashed >>

\* handleDisconnect in the reader: toCall and busy; handleCmd returns false
\* and cmdListen returns
Reader_return(r) ==
  /\ rpc[r] = "hd_rest"
  /\ m' = [ m EXCEPT !.toCall = "", !.busy = FALSE ]
  /\ ReaderDone(r)
  /\ UNCHANGED << conn, listener, chanVars, sockVars, nreaders, cpc, op,
                  written, got, timer, ret, ptt, crashed >>

\* ---------------------------------------------------------- the modem
\* the modem program sends a line on a command connection it holds
ModemSend(s, l) ==
  /\ s \in cmdSocks /\ s \notin closed /\ ~peerGone
  /\ sent < MaxLines
  /\ Len(inbox[s]) < MaxInbox
  /\ sent' = sent + 1
  /\ inbox' = [ inbox EXCEPT ![s] = Append(@, l) ]
  /\ UNCHANGED << m, conn, listener, chanVars, nsock, cmdSocks, closed,
                  peerGone, readerVars, cpc, op, written, got, timer, ret,
                  ptt, crashed >>

\* the modem program ends: its sockets are closed from its side
ModemGone ==
  /\ ~peerGone /\ nsock > 0 /\ ~crashed
  /\ peerGone' = TRUE
  /\ UNCHANGED << m, conn, listener, chanVars, nsock, cmdSocks, closed, inbox,
                  sent, readerVars, cpc, op, written, got, timer, ret,
                  ptt, crashed >>

\* ------------------------------------------------------ the specification
\* the caller's steps inside a DialURL, an Accept or a Close
CallerStep ==
  \/ start_writeCmd
  \/ setBandwidth
  \/ DialURL_session
  \/ DialURL_connect
  \/ WaitConnected
  \/ HandOver
  \/ Close_disconnect
  \/ Close_recv
  \/ Close_timeout
  \/ Close_abort
  \/ Close_sendPTT
  \/ Close_publish
  \/ Close_dataConn
  \/ Close_cmdConn
  \/ Close_return
  \/ Tick

ReaderNext(r) ==
  \/ cmdListen_loop(r)
  \/ cmdListen_read(r)
  \/ handleCmd(r)
  \/ Reader_publish(r)
  \/ Reader_dataConn(r)
  \/ Reader_cmdConn(r)
  \/ Reader_return(r)

\* The link: a session that is started again (MaxReaders starts in all), a
\* modem that sends CONNECTED and DISCONNECTED lines, connects that succeed.
LinkLines == { << "CONNECTED", "R1" >>, << "DISCONNECTED" >> }

Init == InitWith({"varahf"})

Next ==
  \/ nreaders < MaxReaders /\ DialURL(m.scheme, "R1", "", FALSE)
  \/ nreaders < MaxReaders /\ Listen
  \/ Listen_on
  \/ start_cmdConn(TRUE)
  \/ start_dataConn(TRUE)
  \/ Accept
  \/ \E w \in {"m", "conn"} : Close(w)
  \/ CallerStep
  \/ \E r \in Readers : ReaderNext(r)
  \/ \E s \in Socks, l \in LinkLines : ModemSend(s, l)

Spec == Init /\ [][Next]_vars

\* The dial: a session started once, dialled with every URL or listening,
\* connects that may fail, a modem that may go away.
InitDial == InitWith(Schemes)

NextDial ==
  \/ /\ nreaders = 0
     /\ \E sch \in Schemes, t \in Targets, bw \in BwInputs, p \in BOOLEAN :
          DialURL(sch, t, bw, p)
  \/ nreaders = 0 /\ Listen
  \/ Listen_on
  \/ Accept
  \/ \E ok \in BOOLEAN : start_cmdConn(ok)
  \/ \E ok \in BOOLEAN : start_dataConn(ok)
  \/ \E w \in {"m", "conn"} : Close(w)
  \/ CallerStep
  \/ \E r \in Readers : ReaderNext(r)
  \/ \E s \in Socks, l \in LinkLines : ModemSend(s, l)
  \/ ModemGone

SpecDial == InitDial /\ [][NextDial]_vars

\* The lines: a session dialled once, a modem that sends every kind of line
\* and may go away, reads that may fail, PTT controllers set and unset.
NextLines ==
  \/ nreaders = 0 /\ DialURL(m.scheme, "R1", "", FALSE)
  \/ start_cmdConn(TRUE)
  \/ start_dataConn(TRUE)
  \/ \E h \in Hooks \cup {NoRig} : SetPTT(h)
  \/ \E w \in {"m", "conn"} : Close(w)
  \/ CallerStep
  \/ \E r \in Readers : ReaderNext(r) \/ cmdListen_readErr(r)
  \/ \E s \in Socks, l \in ModemLines : ModemSend(s, l)
  \/ ModemGone

SpecLines == Init /\ [][NextLines]_vars

\* the session that is sent lines handleCmd ignores and then one line
\* CONNECTED: a dial, lines that are ignored or DISCONNECTED, and a last line
\* that may be CONNECTED
\* the lines handleCmd does nothing for: OK, IAMALIVE, PENDING, BUFFER...,
\* REGISTERED... and the lines it does not know
IgnoredLines == { l \in ModemLines : Kind(l) \in {"nothing", "unexpected"} }

\* the modem sends the next line of such a sequence
ModemSendIgnored(s) ==
  \E l \in ModemLines :
    /\ \/ l \in IgnoredLines
       \/ l = << "DISCONNECTED" >>
       \/ sent = MaxLines - 1 /\ HasPrefix(l, "CONNECTED")
    /\ ModemSend(s, l)

NextIgnored ==
  \/ nreaders = 0 /\ DialURL(m.scheme, "R1", "", FALSE)
  \/ start_cmdConn(TRUE)
  \/ start_dataConn(TRUE)
  \/ \E w \in {"m", "conn"} : Close(w)
  \/ CallerStep
  \/ \E r \in Readers : ReaderNext(r)
  \/ \E s \in Socks : ModemSendIgnored(s)
  \/ ModemGone

SpecIgnored == Init /\ [][NextIgnored]_vars

\* ------------------------------------------------------------ the claims
\* C1: for every bandwidth value that is non-empty and not supported, at the
\* moment dial returns its configuration error neither channel has been
\* opened by the call and no command has been written.
C1_NoNetworkAction ==
  [][ (cpc = "dial_bw" /\ ret' = "err_bandwidth")
        => (written = << >> /\ m.cmdConn = Nil /\ m.dataConn = Nil) ]_vars

\* C2: when dial returns a facade the value it took from the notification
\* channel is connected, the session's state is connected, its toCall is the
\* dialled target and the facade's RemoteAddr is the dialled target; when
\* the value it took is disconnected, dial returns the connect error.
C2_DialPostcondition ==
  [][ /\ (cpc = "dial_ret" /\ ret' = "facade")
         => /\ got = connected
            /\ m'.lastState = connected
            /\ m'.toCall = op.target
            /\ RemoteAddr(conn') = op.target
      /\ (cpc = "dial_ret" /\ cpc' = "idle" /\ got = disconnected)
         => ret' = "err_connection_failed" ]_vars

\* no reader goroutine can take a step: each is parked in its Read, parked in
\* a send, ended or not yet spawned
ReadersAtRest == \A r \in Readers : ~ReaderRunnable(r)

\* the program has come to rest: no call is in progress and no reader
\* goroutine can take a step; only a further call can change the session
Quiescent == cpc = "idle" /\ ReadersAtRest

\* C3: a DISCONNECTED line received while the state is connected leads to a
\* session with state disconnected, both handles cleared, busy false and
\* toCall empty, whether or not the notification channel still holds an
\* unconsumed value and whatever call is waiting (here: none). Stated on the
\* states at rest: the reader that handled the DISCONNECTED line, with the
\* connected value still unconsumed in the channel, has finished the teardown.
C3_DisconnectedTearsDown ==
  \A r \in Readers :
    (Quiescent /\ connectChange = << connected >> /\ rpc[r] = "hd_blocked")
      => InitialShape(m)

\* C4: a Close called while the state is disconnected never blocks: it is
\* never parked in the send on the notification channel (the caller being the
\* only receiver, a Close parked there stays there).
C4_CloseNeverBlocks ==
  ~(cpc = "hd_blocked" /\ op.name = "close" /\ op.clean)

\* C5: a Close called while the state is connected, with no DISCONNECTED line
\* sent by the modem (the one line sent is the CONNECTED that made the state
\* connected), has written DISCONNECT and then ABORT when it goes on to
\* signal PTT off; stated for a Close that finds the Command Channel open.
C5_DisconnectThenAbort ==
  ( /\ cpc = "close_ptt" /\ op.name = "close" /\ ~op.clean /\ sent = 1
    /\ Cur.cmdConn # Nil )
    => written = << "DISCONNECT", "ABORT" >>

\* C6: every return of a Close called on the session leaves the session in
\* its initial disconnected shape, on the paths on which a write of
\* DISCONNECT or ABORT fails as on the others; stated for a Close that finds
\* both channels open.
C6_CloseAlwaysTearsDown ==
  [][ ( /\ op.name = "close" /\ op.recv = "m" /\ cpc' = "idle"
        /\ m.cmdConn # Nil /\ m.dataConn # Nil )
        => InitialShape(m') ]_vars

\* C7: a session is restarted after close: when, after a dial that returned a
\* facade and a Close that returned nil with the session back in its initial
\* shape, a new dial begins, the notification channel holds no value of the
\* earlier cycle for the new dial to take.
C7_RestartFindsNoStaleValue ==
  [][ ( /\ cpc = "idle" /\ ret = "closed" /\ InitialShape(m)
        /\ conn.ok /\ RemoteAddr(conn) # ""
        /\ cpc' = "start_cmd" /\ op'.name = "dial" )
        => connectChange = << >> ]_vars

\* C8: when a Close called on a facade of a connected link returns nil
\* (DISCONNECTED received, timeout followed by ABORT, or another value), the
\* owning session has state disconnected and both its channel handles
\* cleared; stated for the returns at which no reader goroutine is still at
\* work on the session.
C8_FacadeCloseTearsDownSession ==
  [][ ( /\ op.name = "close" /\ op.recv = "conn" /\ ~op.clean
        /\ ret' = "closed" /\ ReadersAtRest )
        => /\ m'.lastState = disconnected
           /\ m'.cmdConn = Nil
           /\ m'.dataConn = Nil ]_vars

C10_AcceptAfterConnected ==
  [][ (cpc = "accept_ret" /\ cpc' # "accept_ret" /\ op.slot = << connected >>)
        => ret' = "facade" ]_vars

\* the call signs named in the CONNECTED lines among lines
ConnectedCalls(lines) ==
  { l[2] : l \in { x \in lines : HasPrefix(x, "CONNECTED") /\ Len(x) > 1 } }

\* C11: the facade Accept returns is addressed to the remote station named
\* in the CONNECTED line: its RemoteAddr is a call sign the modem has named
\* in a CONNECTED line.
C11_AcceptRemoteAddr ==
  [][ (cpc = "accept_ret" /\ ret' = "facade")
        => RemoteAddr(conn') \in ConnectedCalls(LinkLines) ]_vars

\* the commands a dial of target writes, in order, for a scheme, a bandwidth
\* option and a p2p option
DialCmds(scheme, bw, p2p, target) ==
  << "PUBLIC ON" >>
    \o (IF scheme = "varahf" THEN << "CWID ON" >> ELSE << >>)
    \o << "COMPRESSION TEXT", "MYCALL " \o MyCall >>
    \o (IF bw # "" THEN << "BW" \o bw >> ELSE << >>)
    \o (IF scheme = "varahf"
        THEN << IF p2p THEN "P2P SESSION" ELSE "WINLINK SESSION" >>
        ELSE << >>)
    \o << "CONNECT " \o MyCall \o " " \o target >>

\* s is an initial part of t
IsPrefix(s, t) == Len(s) <= Len(t) /\ SubSeq(t, 1, Len(s)) = s

\* C12: a dial writes PUBLIC ON, CWID ON (varahf only), COMPRESSION TEXT,
\* MYCALL, BW<value> (once, only with a bandwidth option), P2P SESSION or
\* WINLINK SESSION (varahf only, P2P exactly when p2p is set) and CONNECT in
\* this order: what a dial has written is always an initial part of that
\* sequence, and all of it, ending in CONNECT, when the dial blocks.
C12_DialCommandOrder ==
  op.name = "dial" =>
    /\ IsPrefix(written, DialCmds(m.scheme, op.bw, op.p2p, op.target))
    /\ cpc = "dial_wait" =>
          /\ op.bw \in bandwidths \cup {""}
          /\ written = DialCmds(m.scheme, op.bw, op.p2p, op.target)

\* a peer-to-peer dial with bandwidth 2300 on varahf blocks after its seven
\* commands
C12_DialBlocks ==
  /\ cpc = "dial_wait"
  /\ m.scheme = "varahf"
  /\ op.bw = "2300"
  /\ op.p2p
  /\ Len(written) = 7
  /\ written[7] = "CONNECT ME " \o op.target

\* the reader r takes a step of its own
ReaderStep(r) == (rpc'[r] # rpc[r] \/ cmds'[r] # cmds[r]) /\ ~crashed'

\* the reader r is about to hand the line c to handleCmd
Dispatching(r, c) ==
  rpc[r] = "dispatch" /\ cmds[r] # << >> /\ Head(cmds[r]) = c

\* C13 as stated: BUSY ON sets the busy flag, BUSY OFF clears it, and no
\* other step of the reader's processing of a line changes it.
C13_BusyOnlyByBusyLines ==
  [][ \A r \in Readers : ReaderStep(r) =>
        IF Dispatching(r, << "BUSY", "ON" >>) THEN m'.busy
        ELSE IF Dispatching(r, << "BUSY", "OFF" >>) THEN ~m'.busy
        ELSE m'.busy = m.busy ]_vars

\* C13: processing BUSY ON makes Busy() true, processing BUSY OFF makes it
\* false, the last step of the teardown run for a DISCONNECTED line makes it
\* false, and no other step of the reader's processing of a line changes it.
C13_BusyFlag ==
  [][ \A r \in Readers : ReaderStep(r) =>
        IF Dispatching(r, << "BUSY", "ON" >>) THEN Busy'
        ELSE IF Dispatching(r, << "BUSY", "OFF" >>) THEN ~Busy'
        ELSE IF rpc[r] = "hd_rest" THEN ~Busy'
        ELSE Busy' = Busy ]_vars

\* the reader is at the end of the teardown for a DISCONNECTED line while
\* the busy flag is set
C13_DisconnectWhileBusy ==
  \E r \in Readers : rpc[r] = "hd_rest" /\ Busy /\ m.lastState = disconnected

\* C14: an unrecognized line (or OK, IAMALIVE, PENDING, BUFFER...,
\* REGISTERED...) does not stop the reader and changes no session field, and a
\* line with prefix CONNECTED dispatched afterwards sets the state to
\* connected and puts connected into the notification channel.
C14_UnknownLinesIgnored ==
  [][ \A r \in Readers : ReaderStep(r) =>
        /\ (\E l \in IgnoredLines : Dispatching(r, l)) =>
              /\ m' = m
              /\ connectChange' = connectChange
              /\ rpc'[r] = "dispatch"
        /\ (\E l \in ModemLines : HasPrefix(l, "CONNECTED") /\ Dispatching(r, l))
              => m'.lastState = connected /\ rpc'[r] = "hc_pub"
        /\ rpc[r] = "hc_pub" =>
              connectChange' = Append(connectChange, connected) ]_vars

\* the record of the PTT controller's calls after the hook h, if there is
\* one, is called with on
Invoked(h, on) ==
  IF h # NoRig
  THEN [ n |-> (ptt.n + 1) % PttWrap, hook |-> h, on |-> on ]
  ELSE ptt

\* C15: the PTT hook is called once with on for a PTT ON line and once with
\* off for a PTT OFF line the reader processes, once more with off in each
\* Close, and at no other time; the hook called is the one last installed on
\* the session with SetPTT, also in a Close made through the facade, and no
\* call is made when there is none.
C15_PTTHook ==
  [][ /\ IF \E r \in Readers :
               ReaderStep(r) /\ Dispatching(r, << "PTT", "ON" >>)
         THEN ptt' = Invoked(m.rig, TRUE)
         ELSE IF \E r \in Readers :
                    ReaderStep(r) /\ Dispatching(r, << "PTT", "OFF" >>)
         THEN ptt' = Invoked(m.rig, FALSE)
         ELSE IF cpc = "close_ptt" /\ cpc' # cpc
         THEN ptt' = Invoked(m.rig, FALSE)
         ELSE ptt' = ptt
      /\ (op.name = "close" /\ cpc' = "idle" /\ m.rig # NoRig)
           => cpc = "hd_rest" ]_vars

\* C16: the session's connection state changes only in a step in which the
\* reader processes a CONNECTED or a DISCONNECTED line; no step of DialURL,
\* Listen, Accept or Close changes it.
C16_StateOnlyByEvents ==
  [][ m'.lastState # m.lastState =>
        \E r \in Readers :
          /\ ReaderStep(r)
          /\ \E l \in ModemLines :
               /\ HasPrefix(l, "CONNECTED") \/ l = << "DISCONNECTED" >>
               /\ Dispatching(r, l) ]_vars

\* C16: the session's connection state becomes connected only in a step in
\* which the reader processes a CONNECTED line, and becomes disconnected only
\* in a step in which the reader processes a DISCONNECTED line or in the
\* teardown step of a Close; no step of DialURL, Listen or Accept changes it.
C16_StateChanges ==
  [][ m'.lastState # m.lastState =>
        IF m'.lastState = connected
        THEN \E r \in Readers :
               /\ ReaderStep(r)
               /\ \E l \in ModemLines :
                    HasPrefix(l, "CONNECTED") /\ Dispatching(r, l)
        ELSE \/ \E r \in Readers :
                  ReaderStep(r) /\ Dispatching(r, << "DISCONNECTED" >>)
             \/ op.name = "close" /\ cpc = "close_ptt" /\ cpc' = "hd_pub" ]_vars

\* a Close of the connected session has written DISCONNECT and ABORT and has
\* set the state to disconnected, and no DISCONNECTED line was ever sent
C16_CloseSetsState ==
  /\ op.name = "close" /\ op.recv = "m" /\ ~op.clean
  /\ cpc = "hd_pub"
  /\ written = << "DISCONNECT", "ABORT" >>
  /\ m.lastState = disconnected
  /\ sent = 1

\* the reader goroutine r is running
Running(r) == rpc[r] \notin {"none", "done"}

\* C17: at every moment at most one reader goroutine is running for the
\* session: a repeated start does not leave a second reader beside the first.
C17_AtMostOneReader ==
  \A r1, r2 \in Readers : Running(r1) /\ Running(r2) => r1 = r2

\* where a goroutine is inside handleDisconnect, lastState written and the
\* other fields not yet all written
InTeardown == {"hd_pub", "hd_blocked", "hd_data", "hd_cmd", "hd_rest"}

\* C18: the reader and Close never write the session's fields at the same
\* time: when a Close called on the connected session has written DISCONNECT
\* and is inside its own teardown, no reader is still inside the teardown it
\* runs for the answering DISCONNECTED line.
C18_TeardownsDoNotOverlap ==
  (op.name = "close" /\ op.recv = "m" /\ ~op.clean
     /\ written = << "DISCONNECT" >> /\ cpc \in InTeardown)
    => \A r \in Readers : rpc[r] \notin InTeardown

\* C19: the reader stops once it has processed a DISCONNECTED line: from the
\* teardown it goes nowhere but to its end, and an ended reader stays ended,
\* so it dispatches no later line; a Read on a connection closed by teardown
\* ends it, any other outcome of a Read leaves it running or ends it on
\* end-of-stream; and it does terminate once its connection has been closed
\* by teardown: when the program has come to rest, no reader whose connection
\* is closed is still running.
C19_ReaderStops ==
  [][ /\ \A r \in Readers : ReaderStep(r) =>
           /\ rpc[r] \in InTeardown => rpc'[r] \in InTeardown \cup {"done"}
           /\ rpc[r] = "done" => rpc'[r] = "done"
           /\ (rpc[r] = "read" /\ rsock[r] \in closed) => rpc'[r] = "done"
           /\ (rpc[r] = "read" /\ rsock[r] \notin closed /\ rpc'[r] = "done")
                => peerGone /\ inbox[rsock[r]] = << >>
      /\ Quiescent' =>
           \A r \in Readers : Running(r)' => rsock'[r] \notin closed' ]_vars

\* C20: a send on the notification channel never blocks a goroutine for
\* good: no reader (in handleConnect or handleDisconnect) and no Close (in
\* its handleDisconnect) is parked in the send on a full channel while no
\* DialURL, Accept or Close is waiting to receive from it.
C20_PublishNeverBlocks ==
  sendq # << >> => cpc \in {"dial_wait", "accept_wait", "close_wait"}

====
